---- MODULE Spec2Model ----
(***************************************************************************)
(* Browser-side core of the traffic-violation platform:                    *)
(*   - the vehicle-owner dashboard of frontend-clean with its              *)
(*     violation -> challan reconciliation (pages/UserDashboard.jsx);      *)
(*   - the session store of frontend-clean (state/AuthContext.jsx) and of  *)
(*     frontend-spa (contexts/AuthContext.jsx).                            *)
(* The network is a bag of requests; the backend answers a request at some *)
(* moment (ServerHandle) and the answer reaches the page later (the        *)
(* Deliver actions), so answers can overtake each other and can be stale.  *)
(***************************************************************************)
EXTENDS Integers, Sequences, FiniteSets, Bags, TLC

\* ------------------------------------------------------------------ bounds
\* violations recorded on the backend for the session's vehicle
NumViolations == 2
\* how many times the user presses "Pay Challan" during one mount
MaxPays == 1
\* how many times the router takes the dashboard off the page
MaxUnmounts == 1
\* how many times the session's vehicle changes under a mounted dashboard
MaxChanges == 1

\* --------------------------------------------------------- JavaScript values
Undefined == [t |-> "undefined"]
Null == [t |-> "null"]
JsStr(s) == [t |-> "str", s |-> s]
JsObj(f) == [t |-> "obj", f |-> f]

\* Boolean(x) / !x of JavaScript on the values above
Truthy(x) == /\ x.t \notin {"undefined", "null"}
             /\ ~(x.t = "str" /\ x.s = "")

\* a || b
Or(a, b) == IF Truthy(a) THEN a ELSE b

\* o.k and o?.k: the field, undefined when o has none or is no object
Get(o, k) == IF o.t = "obj" /\ k \in DOMAIN o.f THEN o.f[k] ELSE Undefined

\* ------------------------------------------------- localStorage and JSON
\* the keys the two applications use (part_005 line 6; spa lines 12-13, 34)
Keys == {"tv_auth", "access_token", "refresh_token", "user"}

\* getItem(k) === null
NoItem == [t |-> "none"]
\* a stored text that is the JSON encoding of the value v
JsonText(v) == [t |-> "text", json |-> TRUE, v |-> v]
\* a stored text that is no JSON (a bare token, "undefined", "", truncated JSON)
PlainText(s) == [t |-> "text", json |-> FALSE, v |-> JsStr(s)]

\* getItem(k) used as a condition: null and "" are falsy
ItemTruthy(item) == item.t = "text" /\ ~(~item.json /\ item.v.s = "")

\* JSON.stringify(v): undefined gives undefined (no text); the fields of an
\* object that are undefined are left out
Stringify(v) ==
  IF v.t = "undefined" THEN Undefined
  ELSE IF v.t = "obj"
       THEN JsonText(JsObj([k \in {x \in DOMAIN v.f : v.f[x].t # "undefined"}
                              |-> v.f[k]]))
       ELSE JsonText(v)

\* the text setItem(k, x) stores: String(x)
SetItemText(x) ==
  IF x.t = "text" THEN x
  ELSE IF x.t = "str" THEN PlainText(x.s)
  ELSE IF x.t = "null" THEN JsonText(Null)
  ELSE IF x.t = "undefined" THEN PlainText("undefined")
  ELSE PlainText("[object Object]")

\* JSON.parse(text) throws a SyntaxError
ParseThrows(item) == ~item.json
\* JSON.parse(text) when it does not throw
Parse(item) == item.v

\* `${x}` of a template string
Template(x) ==
  IF x.t = "str" THEN x
  ELSE IF x.t = "text" THEN x.v
  ELSE IF x.t = "null" THEN JsStr("null")
  ELSE JsStr("undefined")

\* identities the backend returns
PublicUser == JsObj([id |-> JsStr("u1"), role |-> JsStr("public")])
OfficerUser == JsObj([id |-> JsStr("u2"), role |-> JsStr("officer")])
\* an identity whose role string is neither (the role is not validated)
OtherRoleUser == JsObj([id |-> JsStr("u3"), role |-> JsStr("admin")])

VARIABLES
  \* ---- vehicle-owner dashboard (frontend-clean UserDashboard)
  mounted,        \* the component is mounted
  vehicleNumber,  \* useAuth().vehicleNumber
  challans,       \* useState([]) : challans shown
  violations,     \* useState([]) : violations shown
  error,          \* useState("") : the banner of a failed challan fetch
  hasSynced,      \* hasSyncedRef.current
  net,            \* bag of requests in flight, answered or not, each with the
                  \* state of the async function that awaits it
  srvChallans,    \* backend: violation numbers that have a challan
  srvPaid,        \* backend: those whose challan is paid
  pays,           \* presses of "Pay Challan" so far
  unmounts,       \* how often the dashboard was unmounted: the number of the
                  \* component instance that is or will be mounted next
  changes,        \* how often the vehicle changed under the mounted dashboard
  \* ---- history (observation only, never read by an action's guard)
  requested,      \* violation numbers a creation request was issued for
  passDone,       \* some pass ran its loop to the end, every creation accepted
  seen,           \* of the current instance: whether a GET /challans answer was
                  \* shown (loaded) and the violations that had a challan in
                  \* a shown list (covered)
  \* ---- session store (AuthProvider of frontend-clean and of frontend-spa)
  app,            \* which application runs: "clean" or "spa"
  authUp,         \* the AuthProvider has mounted in this process
  accessToken,    \* frontend-clean: useState(null)
  user,           \* useState(null)
  loading,        \* frontend-spa: useState(true)
  storage,        \* localStorage: key -> item
  apiToken,       \* the credential the API client attaches (Bearer ...)
  location,       \* the router's current path
  formError,      \* the error the login / register form shows
  authResult,     \* frontend-spa: what login() / register() returned last
  lastReq,        \* the Authorization header of the request issued last by
                  \* frontend-clean, with the session's credential at that time
  \* ---- history
  established     \* history: the last session operation (op), the one before
                  \* it (prev) and the arguments of the last login(...)

dashVars == <<mounted, challans, violations, error, hasSynced, net,
              srvChallans, srvPaid, pays, unmounts, changes, requested, passDone,
              seen>>

authVars == <<app, authUp, accessToken, user, loading, storage, apiToken,
              location, formError, authResult, lastReq, established>>

vars == <<dashVars, vehicleNumber, authVars>>

\* ---------------------------------------------------------- backend data
\* GET /violations renders a violation's id as a number, GET /challans renders
\* the violation_id of a challan as a string; the page compares them through
\* String(...), modelled by StringOf.
ViolationId(n) == [kind |-> "num", n |-> n]
ChallanViolationId(n) == [kind |-> "str", n |-> n]

\* String(x): the number n and the string "n" both give the text of n
StringOf(id) == id.n

\* the violations GET /violations?vehicle_number=... returns, in server order
AllViolations == [n \in 1..NumViolations |-> [id |-> ViolationId(n)]]

\* the two vehicles of the model: the first has the violations 1..NumViolations,
\* the second a single violation of its own
FirstVehicle == JsStr("KA01AB1234")
SecondVehicle == JsStr("MH12XY0001")
OtherViolations == <<[id |-> ViolationId(NumViolations + 1)]>>

\* GET /violations?vehicle_number=vn (part_004 lines 39-41) as the backend
\* answers it
ViolationsOf(vn) ==
  IF vn = FirstVehicle THEN AllViolations
  ELSE IF vn = SecondVehicle THEN OtherViolations
  ELSE <<>>

RECURSIVE SeqOfSet(_, _)
\* the numbers of S from n up to the last violation id, ascending
SeqOfSet(S, n) ==
  IF n > NumViolations + 1 THEN <<>>
  ELSE (IF n \in S THEN <<n>> ELSE <<>>) \o SeqOfSet(S, n + 1)

\* the body of GET /challans when the backend holds challans for chs, those
\* of paid paid; of a challan the violation_id and the status are modelled
\* (the amount is read by no handler)
ChallanList(chs, paid) ==
  LET ns == SeqOfSet(chs, 1)
  IN [i \in 1..Len(ns) |->
        [violation_id |-> ChallanViolationId(ns[i]),
         status |-> IF ns[i] \in paid THEN "paid" ELSE "unpaid"]]

\* ------------------------------------------------------------- requests
\* id placeholder of a request that carries no violation
NoId == ViolationId(0)

\* the value of the Authorization header
Bearer(token) == [t |-> "bearer", token |-> token]

\* part_004 lines 12-18: the header the request interceptor attaches when the
\* client holds token
Interceptor(token) == IF Truthy(token) THEN Bearer(token) ELSE Undefined

\* A request in flight. op: the endpoint; cont: the function awaiting it
\* ("mount" effect, "sync" pass, "pay" handler); v: the violation it names.
\* For a request of a pass, V and C are the violations and challans the pass
\* closed over, tc its toCreate list and i the position of its for loop.
\* gen is the component instance whose function awaits the answer, hdr the
\* Authorization header the interceptor attached, start the session's
\* credential when the awaiting function was called, vn the vehicle_number
\* parameter (GET /violations only).
Msg(op, cont, v, V, C, tc, i) ==
  [op |-> op, cont |-> cont, v |-> v, V |-> V, C |-> C, tc |-> tc, i |-> i,
   resp |-> "pending", data |-> <<>>,
   gen |-> unmounts, hdr |-> Interceptor(apiToken), start |-> accessToken,
   vn |-> JsStr("")]

\* the request n issued by the function that awaited the answer m
Continue(m, n) == [n EXCEPT !.gen = m.gen, !.start = m.start]

\* the function awaiting m belongs to the instance that is mounted now (React
\* drops the state updates of an unmounted component)
Live(m) == mounted /\ m.gen = unmounts

Plain(op, cont, v) == Msg(op, cont, v, <<>>, <<>>, <<>>, 0)

Send(bag, m) == bag (+) SetToBag({m})
Drop(bag, m) == bag (-) SetToBag({m})

\* ------------------------------------------------- reconciliation (pure)
\* mutant of existingViolationIds: no challan covers anything
existingViolationIds_None(chal) == {}

\* UserDashboard.jsx line 55: the ids the challans shown already cover
existingViolationIds(chal) ==
  {StringOf(chal[i].violation_id) : i \in DOMAIN chal}

\* UserDashboard.jsx line 56: violations.filter(v => !existing.has(String(v.id)))
toCreate(viol, chal) ==
  SelectSeq(viol, LAMBDA v : StringOf(v.id) \notin existingViolationIds(chal))

\* UserDashboard.jsx line 82: the sync effect goes on to call the pass
EffectRuns(vn, hs, viol) == Truthy(vn) /\ ~hs /\ Len(viol) # 0

\* UserDashboard.jsx line 53: the pass does not return at once
SyncRuns(vn, hs) == Truthy(vn) /\ ~hs

\* mutant of FlagAfterLoop: the flag is left as it was
FlagAfterLoop_Unset(hs) == hs

\* UserDashboard.jsx line 62: the value of hasSyncedRef.current once the loop
\* over toCreate has run to its end (hs is the value before)
FlagAfterLoop(hs) == TRUE

\* mutant of ReloadAfterLoop: the pass ends without re-fetching
ReloadAfterLoop_None(m) == {}

\* UserDashboard.jsx line 63: the pass re-fetches the challans after the loop
ReloadAfterLoop(m) ==
  {Continue(m, Msg("listChallans", "sync", NoId, m.V, m.C, m.tc, m.i))}

\* The sync effect (lines 80-85) followed by the synchronous head of
\* syncChallansFromViolations (lines 52-60), run in a render whose state is
\* (viol, chal); nb is the network before it.
SyncEffectIn(vn, hs, viol, chal, nb) ==
  LET tc == toCreate(viol, chal)
  IN IF /\ EffectRuns(vn, hs, viol)
        /\ SyncRuns(vn, hs)
        /\ Len(tc) # 0
     THEN /\ net' = Send(nb, Msg("create", "sync", tc[1].id, viol, chal, tc, 1))
          /\ requested' = requested \cup {StringOf(tc[1].id)}
     ELSE /\ net' = nb
          /\ requested' = requested

\* the same in a render of the current vehicle and flag
SyncEffect(viol, chal, nb) ==
  SyncEffectIn(vehicleNumber, hasSynced, viol, chal, nb)

\* nothing shown yet by this instance
NoneSeen == [loaded |-> FALSE, covered |-> {}]

loadViolations_Always(vn, nb) ==
  Send(nb, [Plain("listViolations", "mount", NoId) EXCEPT !.vn = vn])

\* UserDashboard.jsx lines 39-45: loadViolations up to its request, with the
\* session's vehicle vn; nb is the network before it
loadViolations(vn, nb) ==
  IF ~Truthy(vn) THEN nb
  ELSE Send(nb, [Plain("listViolations", "mount", NoId) EXCEPT !.vn = vn])

\* ------------------------------------------------------------- actions
\* lines 70-78 and 80-85 on mount: both loads start, the flag is cleared, the
\* sync effect returns at once because violations is still empty
Mount ==
  /\ ~mounted
  /\ mounted' = TRUE
  /\ hasSynced' = FALSE
  /\ challans' = <<>>
  /\ violations' = <<>>
  /\ error' = ""
  /\ seen' = NoneSeen
  /\ net' = loadViolations(vehicleNumber,
                            Send(net, Plain("listChallans", "mount", NoId)))
  /\ UNCHANGED <<authVars, unmounts, changes, vehicleNumber, srvChallans,
                  srvPaid, pays,
                 requested, passDone>>

\* the router takes the dashboard off the page: its state is discarded, the
\* requests it issued stay in flight (no effect has a cleanup, lines 70-85)
Unmount ==
  /\ mounted
  /\ unmounts < MaxUnmounts
  /\ mounted' = FALSE
  /\ unmounts' = unmounts + 1
  /\ challans' = <<>>
  /\ violations' = <<>>
  /\ error' = ""
  /\ hasSynced' = FALSE
  /\ seen' = NoneSeen
  /\ UNCHANGED <<authVars, changes, vehicleNumber, net, srvChallans, srvPaid,
                  pays,
                 requested, passDone>>

\* the backend answers GET /challans (part_004 lines 43-45) with the challans
\* it holds at that moment, or fails
ServeChallans(m, ok) ==
  /\ m \in BagToSet(net) /\ m.op = "listChallans" /\ m.resp = "pending"
  /\ net' = Send(Drop(net, m),
                 [m EXCEPT !.resp = IF ok THEN "ok" ELSE "err",
                           !.data = IF ok THEN ChallanList(srvChallans, srvPaid)
                                    ELSE <<>>])
  /\ UNCHANGED <<authVars, unmounts, changes, seen, mounted, vehicleNumber,
                  challans, violations, error,
                 hasSynced, srvChallans, srvPaid, pays, requested, passDone>>

\* the backend answers POST /challans/from-violation (part_004 lines 47-49):
\* on success the violation has a challan from then on
ServeCreate(m, ok) ==
  /\ m \in BagToSet(net) /\ m.op = "create" /\ m.resp = "pending"
  /\ net' = Send(Drop(net, m), [m EXCEPT !.resp = IF ok THEN "ok" ELSE "err"])
  /\ srvChallans' = IF ok THEN srvChallans \cup {StringOf(m.v)}
                    ELSE srvChallans
  /\ UNCHANGED <<srvPaid, authVars, unmounts, changes, seen, mounted,
                  vehicleNumber, challans, violations, error,
                 hasSynced, pays, requested, passDone>>

\* loadChallans lines 30-31, then the sync effect on the new challans
DeliverChallans(m) ==
  /\ m \in BagToSet(net) /\ m.op = "listChallans" /\ m.resp = "ok"
  /\ IF Live(m)
     THEN /\ challans' = m.data
          /\ seen' = [loaded |-> TRUE,
                      covered |-> seen.covered \cup
                        {m.data[j].violation_id.n : j \in DOMAIN m.data}]
          /\ SyncEffect(violations, m.data, Drop(net, m))
     ELSE /\ net' = Drop(net, m)
          /\ UNCHANGED <<challans, seen, requested>>
  /\ UNCHANGED <<authVars, unmounts, changes, mounted, vehicleNumber,
                 violations, error, hasSynced, srvChallans, srvPaid, pays, passDone>>

\* loadChallans lines 32-36
DeliverChallansError(m) ==
  /\ m \in BagToSet(net) /\ m.op = "listChallans" /\ m.resp = "err"
  /\ error' = IF Live(m) THEN "Failed to load challans" ELSE error
  /\ net' = Drop(net, m)
  /\ UNCHANGED <<authVars, unmounts, changes, seen, mounted, vehicleNumber,
                 challans, violations, hasSynced, srvChallans, srvPaid, pays, requested,
                 passDone>>

\* loadViolations lines 45-46 (GET /violations answered with the vehicle's
\* violations), then the sync effect on the new violations
DeliverViolations(m) ==
  /\ m \in BagToSet(net) /\ m.op = "listViolations"
  /\ IF Live(m)
     THEN /\ violations' = ViolationsOf(m.vn)
          /\ SyncEffect(ViolationsOf(m.vn), challans, Drop(net, m))
     ELSE /\ net' = Drop(net, m)
          /\ UNCHANGED <<violations, requested>>
  /\ UNCHANGED <<authVars, unmounts, changes, seen, mounted, vehicleNumber,
                 challans, error, hasSynced, srvChallans, srvPaid, pays, passDone>>

\* loadViolations lines 47-49 (GET /violations failed): nothing is set
DeliverViolationsError(m) ==
  /\ m \in BagToSet(net) /\ m.op = "listViolations"
  /\ net' = Drop(net, m)
  /\ UNCHANGED <<authVars, unmounts, changes, seen, mounted, vehicleNumber,
                  challans, violations, error,
                 hasSynced, srvChallans, srvPaid, pays, requested, passDone>>

\* lines 59-61: a creation succeeded and the loop goes to its next violation
DeliverCreatedNext(m) ==
  /\ m \in BagToSet(net) /\ m.op = "create" /\ m.resp = "ok"
  /\ m.i < Len(m.tc)
  /\ net' = Send(Drop(net, m),
                 Continue(m, Msg("create", "sync", m.tc[m.i + 1].id, m.V, m.C,
                                 m.tc, m.i + 1)))
  /\ requested' = requested \cup {StringOf(m.tc[m.i + 1].id)}
  /\ UNCHANGED <<authVars, unmounts, changes, seen, mounted, vehicleNumber,
                  challans, violations, error,
                 hasSynced, srvChallans, srvPaid, pays, passDone>>

\* lines 61-63: the last creation succeeded: flag, then loadChallans()
DeliverCreatedLast(m) ==
  /\ m \in BagToSet(net) /\ m.op = "create" /\ m.resp = "ok"
  /\ m.i = Len(m.tc)
  /\ hasSynced' = IF Live(m) THEN FlagAfterLoop(hasSynced) ELSE hasSynced
  /\ net' = Drop(net, m) (+) SetToBag(ReloadAfterLoop(m))
  /\ passDone' = TRUE
  /\ UNCHANGED <<authVars, unmounts, changes, seen, mounted, vehicleNumber,
                  challans, violations, error,
                 srvChallans, srvPaid, pays, requested>>

\* lines 59-61 and 64-67: a creation failed: the await throws out of the for
\* loop into the catch, which logs; the violations still to do get no request,
\* the flag is not set and the challans are not re-fetched
DeliverCreateError(m) ==
  /\ m \in BagToSet(net) /\ m.op = "create" /\ m.resp = "err"
  /\ net' = Drop(net, m)
  /\ UNCHANGED <<authVars, unmounts, changes, seen, mounted, vehicleNumber,
                  challans, violations, error,
                 hasSynced, srvChallans, srvPaid, pays, requested, passDone>>

\* UserDashboard.jsx line 283: the disabled attribute of the Pay button of the
\* challan c
PayDisabled(c) == c.status = "paid"

\* handlePay lines 98-101: "Pay Challan" of a shown challan is pressed
Pay(i) ==
  /\ mounted
  /\ i \in DOMAIN challans
  /\ ~PayDisabled(challans[i])
  /\ pays < MaxPays
  /\ pays' = pays + 1
  /\ net' = Send(net, Plain("pay", "pay", challans[i].violation_id))
  /\ UNCHANGED <<authVars, unmounts, changes, seen, mounted, vehicleNumber,
                  challans, violations, error,
                 hasSynced, srvChallans, srvPaid, requested, passDone>>

\* handlePay line 102: the payment went through, the challans are re-fetched
DeliverPaid(m) ==
  /\ m \in BagToSet(net) /\ m.op = "pay"
  /\ StringOf(m.v) \in srvChallans
  /\ srvPaid' = srvPaid \cup {StringOf(m.v)}
  /\ net' = Send(Drop(net, m), Continue(m, Plain("listChallans", "pay", NoId)))
  /\ UNCHANGED <<authVars, unmounts, changes, seen, mounted, vehicleNumber,
                  challans, violations, error,
                 hasSynced, srvChallans, pays, requested, passDone>>

\* handlePay lines 103-109: the payment failed (only the action error is set)
DeliverPayError(m) ==
  /\ m \in BagToSet(net) /\ m.op = "pay"
  /\ net' = Drop(net, m)
  /\ UNCHANGED <<authVars, unmounts, changes, seen, mounted, vehicleNumber,
                  challans, violations, error,
                 hasSynced, srvChallans, srvPaid, pays, requested, passDone>>

Serve(m) ==
  \/ \E ok \in BOOLEAN : ServeChallans(m, ok)
  \/ \E ok \in BOOLEAN : ServeCreate(m, ok)

Deliver(m) ==
  \/ DeliverChallans(m)
  \/ DeliverChallansError(m)
  \/ DeliverViolations(m)
  \/ DeliverViolationsError(m)
  \/ DeliverCreatedNext(m)
  \/ DeliverCreatedLast(m)
  \/ DeliverCreateError(m)
  \/ DeliverPaid(m)
  \/ DeliverPayError(m)

\* ------------------------------------------------------- route guards
\* an array of role names (allowedRoles={["officer"]})
JsArr(S) == [t |-> "arr", e |-> S]
\* arr.includes(x)
Includes(arr, x) == x \in arr.e

\* what a guard renders
RedirectLogin == "RedirectLogin"
RedirectHome == "RedirectHome"
Allow == "Allow"

\* part_005 line 66
isAuthenticated(at, u) == Truthy(at) /\ Truthy(u)
\* part_005 line 67
role(u) == Or(Get(u, "role"), JsStr("public"))

ProtectedRoute_Open(at, u, allowedRoles) == Allow

\* frontend-clean components/ProtectedRoute.jsx lines 5-17 (frontend/ has the
\* same body); allowedRoles is Undefined when the attribute is not given
ProtectedRoute(at, u, allowedRoles) ==
  IF ~isAuthenticated(at, u) THEN RedirectLogin
  ELSE IF Truthy(allowedRoles) /\ ~Includes(allowedRoles, role(u))
       THEN RedirectHome
       ELSE Allow

\* frontend-spa App (part_002 lines 10-30); allowedRoles defaults to []
ProtectedRouteSpa(u, ld, allowedRoles) ==
  LET roles == IF allowedRoles = Undefined THEN JsArr({}) ELSE allowedRoles
  IN IF ld THEN "Loading"
     ELSE IF ~Truthy(u) THEN RedirectLogin
     ELSE IF Cardinality(roles.e) > 0 /\ ~Includes(roles, Get(u, "role"))
          THEN RedirectHome
          ELSE Allow

\* the routes of the two applications (App.jsx lines 36-46, part_002 37-56)
CleanPaths == {"/", "/login", "/register", "/dashboard"}
SpaPaths == {"/", "/login", "/register", "/user/dashboard", "/officer/dashboard"}

Page(path) ==
  IF path = "/login" THEN "LoginPage"
  ELSE IF path = "/register" THEN "RegisterPage"
  ELSE "LandingPage"

\* mutant of DashboardSwitcher: every role is shown the vehicle owner's
\* dashboard
DashboardSwitcher_Owner(at, u) ==
  LET d == ProtectedRoute(at, u, JsArr({JsStr("public"), JsStr("officer")}))
  IN IF d = Allow THEN [loc |-> "/dashboard", view |-> "UserDashboard"]
     ELSE IF d = RedirectLogin THEN [loc |-> "/login", view |-> "LoginPage"]
     ELSE [loc |-> "/dashboard", view |-> "Redirect"]

\* App.jsx lines 13-27: what /dashboard shows once the outer guard allowed
DashboardSwitcher(at, u) ==
  IF role(u) = JsStr("officer")
  THEN LET d == ProtectedRoute(at, u, JsArr({JsStr("officer")}))
       IN IF d = Allow THEN [loc |-> "/dashboard", view |-> "OfficialDashboard"]
          ELSE IF d = RedirectLogin THEN [loc |-> "/login", view |-> "LoginPage"]
          ELSE [loc |-> "/dashboard", view |-> "Redirect"]
  ELSE LET d == ProtectedRoute(at, u, JsArr({JsStr("public"), JsStr("officer")}))
       IN IF d = Allow THEN [loc |-> "/dashboard", view |-> "UserDashboard"]
          ELSE IF d = RedirectLogin THEN [loc |-> "/login", view |-> "LoginPage"]
          ELSE [loc |-> "/dashboard", view |-> "Redirect"]

\* App.jsx lines 35-47: the path and the view frontend-clean settles on when
\* the router is at path (Navigate elements followed)
RenderClean(path, at, u) ==
  IF path = "/dashboard"
  THEN LET d == ProtectedRoute(at, u, Undefined)
       IN IF d = Allow THEN DashboardSwitcher(at, u)
          ELSE IF d = RedirectLogin THEN [loc |-> "/login", view |-> "LoginPage"]
          ELSE [loc |-> "/dashboard", view |-> "Redirect"]
  ELSE [loc |-> path, view |-> Page(path)]

\* part_002 lines 41-56: one of the two dashboard routes
DashboardSpa(path, u, ld) ==
  LET officer == path = "/officer/dashboard"
      d == ProtectedRouteSpa(u, ld, JsArr({IF officer THEN JsStr("officer")
                                           ELSE JsStr("public")}))
  IN IF d = "Loading" THEN [loc |-> path, view |-> "Loading"]
     ELSE IF d = RedirectLogin THEN [loc |-> "/login", view |-> "LoginPage"]
     ELSE IF d = RedirectHome THEN [loc |-> "/", view |-> "LandingPage"]
     ELSE [loc |-> path,
           view |-> IF officer THEN "OfficerDashboard" ELSE "UserDashboard"]

\* part_002 lines 36-57: the path and the view frontend-spa settles on
RenderSpa(path, u, ld) ==
  IF path \in {"/login", "/register"}
  THEN IF Truthy(u)
       THEN DashboardSpa(IF Get(u, "role") = JsStr("officer")
                         THEN "/officer/dashboard" ELSE "/user/dashboard", u, ld)
       ELSE [loc |-> path, view |-> Page(path)]
  ELSE IF path = "/" THEN [loc |-> path, view |-> "LandingPage"]
  ELSE DashboardSpa(path, u, ld)

\* ------------------------------------------ the request authenticator
NoRequest == [t |-> "none"]
Sent(by, hdr, cred) == [t |-> "sent", by |-> by, hdr |-> hdr, cred |-> cred]

Dashboards == {"UserDashboard", "OfficialDashboard"}

HeaderOfMountRequest_AtIssue(tokenAtIssue, tokenAfterEffects) ==
  Interceptor(tokenAtIssue)

\* The header of a request that a view issues from its mount effect
\* (UserDashboard.jsx lines 70-76) in the commit that also changed the
\* session. The effects of one commit run children first, so the request is
\* issued before the setToken effect of AuthProvider (part_005 lines 75-77);
\* axios runs the request interceptor in a later microtask, after every
\* effect of the commit, so it reads the token the setToken effect stored.
HeaderOfMountRequest(tokenAtIssue, tokenAfterEffects) ==
  Interceptor(tokenAfterEffects)

\* ------------------------------------- session store of frontend-clean
\* part_005 lines 8-16: null when there is no item, the text is empty or it
\* does not parse; the parsed value otherwise
readStoredAuth(store) ==
  LET raw == store["tv_auth"]
  IN IF ~ItemTruthy(raw) THEN Null
     ELSE IF ParseThrows(raw) THEN Null
     ELSE Parse(raw)

\* part_005 lines 18-24
writeStoredAuth(store, data) ==
  IF ~Truthy(data) THEN [store EXCEPT !["tv_auth"] = NoItem]
  ELSE [store EXCEPT !["tv_auth"] = SetItemText(Stringify(data))]

\* part_005 lines 40-46: the persist effect in a render with state (at, u, vn)
PersistEffect(at, u, vn, store) ==
  IF Truthy(at) /\ Truthy(u)
  THEN writeStoredAuth(store, JsObj([accessToken |-> at, user |-> u,
                                     vehicleNumber |-> vn]))
  ELSE writeStoredAuth(store, Null)

\* part_005 lines 75-77 with part_004 lines 21-23: api.setToken(accessToken || null)
SetTokenEffect(at) == Or(at, Null)

\* part_005 line 33: the stored value is taken as a session
StoredValid(stored) ==
  Truthy(Get(stored, "accessToken")) /\ Truthy(Get(stored, "user"))

\* part_005 line 52 reads opts.vehicleNumber: the vehicle after login(payload, opts)
VehicleAfterLogin(vn, opts) ==
  IF Truthy(Get(opts, "vehicleNumber")) THEN Get(opts, "vehicleNumber") ELSE vn

\* part_005 lines 27-38: the state of a fresh AuthProvider after its restore
\* effect has run over store
Restore(store) ==
  LET stored == readStoredAuth(store)
  IN IF StoredValid(stored)
     THEN [accessToken |-> Get(stored, "accessToken"),
           user |-> Get(stored, "user"),
           vehicleNumber |-> Or(Get(stored, "vehicleNumber"), JsStr(""))]
     ELSE [accessToken |-> Null, user |-> Null, vehicleNumber |-> JsStr("")]

\* A page load of frontend-clean: a fresh AuthProvider (lines 27-29), whose
\* mount runs the restore effect (31-38), the persist effect on the initial
\* state (40-46, which removes the item), the setToken effect, and after the
\* re-render with the restored state the persist and setToken effects again.
PageLoad ==
  /\ app = "clean"
  /\ LET r == Restore(storage)
     IN /\ accessToken' = r.accessToken
        /\ user' = r.user
        /\ vehicleNumber' = r.vehicleNumber
        /\ storage' = PersistEffect(r.accessToken, r.user, r.vehicleNumber,
                                    PersistEffect(Null, Null, JsStr(""), storage))
        /\ apiToken' = SetTokenEffect(r.accessToken)
  /\ authUp' = TRUE
  /\ location' = RenderClean(RenderClean(location, Null, Null).loc,
                              accessToken', user').loc
  /\ established' = [established EXCEPT !.op = "restore", !.prev = established.op]
  /\ UNCHANGED <<dashVars, app, loading, lastReq, formError, authResult>>

\* The form of LoginPage or RegisterPage answered with success (part_007 lines
\* 25-28, part_008 lines 43-53): login(payload, opts) of part_005 lines 48-54,
\* navigate("/dashboard"), then the render with its persist and setToken
\* effects. payload is res.data, opts carries the vehicle number typed into
\* the form.
Login(payload, opts) ==
  /\ app = "clean" /\ authUp
  /\ location \in {"/login", "/register"}
  /\ accessToken' = Get(payload, "access_token")
  /\ user' = Get(payload, "user")
  /\ vehicleNumber' = VehicleAfterLogin(vehicleNumber, opts)
  /\ storage' = PersistEffect(accessToken', user', vehicleNumber', storage)
  /\ apiToken' = SetTokenEffect(accessToken')
  /\ location' = RenderClean("/dashboard", accessToken', user').loc
  /\ lastReq' = IF RenderClean("/dashboard", accessToken', user').view
                     \in Dashboards
                THEN Sent("commit", HeaderOfMountRequest(apiToken, apiToken'),
                          accessToken')
                ELSE lastReq
  /\ established' = [op |-> "login", prev |-> established.op,
                     c |-> Get(payload, "access_token"),
                     i |-> Get(payload, "user"),
                     v |-> Get(opts, "vehicleNumber")]
  /\ formError' = JsStr("")
  /\ UNCHANGED <<dashVars, app, authUp, loading, authResult>>

\* Navbar handleLogout (part_006 lines 11-14): logout() of part_005 lines
\* 56-60, navigate("/login"), then the persist and setToken effects
Logout ==
  /\ app = "clean" /\ authUp
  /\ accessToken' = Null
  /\ user' = Null
  /\ vehicleNumber' = JsStr("")
  /\ storage' = PersistEffect(Null, Null, JsStr(""), storage)
  /\ apiToken' = SetTokenEffect(Null)
  /\ location' = RenderClean("/login", accessToken', user').loc
  /\ established' = [established EXCEPT !.op = "logout", !.prev = established.op]
  /\ UNCHANGED <<dashVars, app, authUp, loading, lastReq, formError,
                 authResult>>

\* --------------------------------------- session store of frontend-spa
RemoveSession_KeepUser(store) ==
  [store EXCEPT !["access_token"] = NoItem, !["refresh_token"] = NoItem]

\* contexts/AuthContext.jsx lines 20-22 and 76-78
RemoveSession(store) ==
  [store EXCEPT !["access_token"] = NoItem, !["refresh_token"] = NoItem,
                !["user"] = NoItem]

\* A page load of frontend-spa: a fresh AuthProvider (lines 7-8) and a fresh
\* API client, then the restore effect (lines 10-26).
PageLoadSpa ==
  /\ app = "spa"
  /\ LET token == storage["access_token"]
         userData == storage["user"]
     IN IF ItemTruthy(token) /\ ItemTruthy(userData)
        THEN IF ParseThrows(userData)
             THEN /\ user' = Null
                  /\ apiToken' = Null
                  /\ storage' = RemoveSession(storage)
             ELSE /\ user' = Parse(userData)
                  /\ apiToken' = Template(token)
                  /\ storage' = storage
        ELSE /\ user' = Null
             /\ apiToken' = Null
             /\ storage' = storage
  /\ loading' = FALSE
  /\ authUp' = TRUE
  /\ location' = RenderSpa(location, user', loading').loc
  /\ established' = [established EXCEPT !.op = "restore", !.prev = established.op]
  /\ UNCHANGED <<dashVars, vehicleNumber, app, accessToken, lastReq, formError,
                 authResult>>

\* lines 31-38 and 57-64: what login and register do with the response data
EstablishSpa(data) ==
  /\ storage' = [storage EXCEPT
                   !["access_token"] = SetItemText(Get(data, "access_token")),
                   !["refresh_token"] = SetItemText(Get(data, "refresh_token")),
                   !["user"] = SetItemText(Stringify(Get(data, "user")))]
  /\ apiToken' = Template(Get(data, "access_token"))
  /\ user' = Get(data, "user")
  /\ location' = RenderSpa(location, user', loading).loc
  /\ established' = [op |-> "login", prev |-> established.op,
                     c |-> Get(data, "access_token"), i |-> Get(data, "user"),
                     v |-> Undefined]
  /\ authResult' = [success |-> TRUE, error |-> Undefined]
  /\ UNCHANGED <<dashVars, vehicleNumber, app, authUp, accessToken, loading,
                 lastReq>>

\* lines 28-40: POST /auth/login answered with data
LoginSpa(data) ==
  /\ app = "spa" /\ authUp /\ location = "/login"
  /\ EstablishSpa(data)
  /\ UNCHANGED formError

\* lines 49-66: POST /auth/register answered with data, called by the form of
\* RegisterPage.jsx (lines 17-41), which clears its error first
RegisterSpa(data) ==
  /\ app = "spa" /\ authUp /\ location = "/register"
  /\ EstablishSpa(data)
  /\ formError' = JsStr("")

\* lines 75-81
LogoutSpa ==
  /\ app = "spa" /\ authUp
  /\ storage' = RemoveSession(storage)
  /\ apiToken' = Null
  /\ user' = Null
  /\ location' = RenderSpa(location, user', loading).loc
  /\ established' = [established EXCEPT !.op = "logout", !.prev = established.op]
  /\ UNCHANGED <<dashVars, vehicleNumber, app, authUp, accessToken, loading,
                 lastReq, formError, authResult>>

\* the user follows a link or types a path (client-side navigation)
Goto(path) ==
  /\ authUp
  /\ path \in (IF app = "clean" THEN CleanPaths ELSE SpaPaths)
  /\ location' = IF app = "clean" THEN RenderClean(path, accessToken, user).loc
                 ELSE RenderSpa(path, user, loading).loc
  /\ lastReq' = IF /\ app = "clean"
                   /\ RenderClean(path, accessToken, user).view \in Dashboards
                   /\ RenderClean(location, accessToken, user).view
                        \notin Dashboards
                THEN Sent("mount", Interceptor(apiToken), accessToken)
                ELSE lastReq
  /\ UNCHANGED <<dashVars, vehicleNumber, app, authUp, accessToken, user,
                 loading, storage, apiToken, established, formError,
                 authResult>>

\* any later request of frontend-clean: a handler of a mounted view, or the
\* continuation of an async function that outlives its view (UserDashboard.jsx
\* lines 59-63, 98-102)
Request ==
  /\ app = "clean" /\ authUp
  /\ lastReq' = Sent("later", Interceptor(apiToken), accessToken)
  /\ UNCHANGED <<dashVars, vehicleNumber, app, authUp, accessToken, user,
                 loading, storage, apiToken, location, established, formError,
                 authResult>>

\* ------------------------------------------ failed login and registration
\* err?.response?.data of a rejected request: no response at all, a body with
\* a message, with a detail, with neither
FailureBodies ==
  {Undefined, JsObj([message |-> JsStr("Invalid credentials")]),
   JsObj([detail |-> JsStr("Bad request")]), JsObj([message |-> JsStr("")])}

ErrorMessage_Raw(data, fallback) == Get(data, "message")

\* part_007 lines 30-31, part_008 lines 55-56:
\* err?.response?.data?.message || err?.response?.data?.detail || fallback
ErrorMessage(data, fallback) ==
  Or(Or(Get(data, "message"), Get(data, "detail")), JsStr(fallback))

\* contexts/AuthContext.jsx lines 44 and 70
ErrorMessageSpa(data, fallback) == Or(Get(data, "message"), JsStr(fallback))

\* what every failure handler leaves alone
FailureFrame ==
  UNCHANGED <<dashVars, vehicleNumber, app, authUp, accessToken, user, loading,
              storage, apiToken, location, lastReq>>

\* part_007 lines 20-36 when api.login rejects
LoginFailed(data) ==
  /\ app = "clean" /\ authUp /\ location = "/login"
  /\ formError' = ErrorMessage(data, "Login failed")
  /\ established' = [established EXCEPT !.op = "failed", !.prev = established.op]
  /\ FailureFrame /\ UNCHANGED authResult

\* part_008 lines 31-61 when api.validateOfficialKey (stage "key", official
\* registrations only) or api.register (stage "register") rejects
RegisterFailed(stage, data) ==
  /\ app = "clean" /\ authUp /\ location = "/register"
  /\ stage \in {"key", "register"}
  /\ formError' = ErrorMessage(data, "Registration failed")
  /\ established' = [established EXCEPT !.op = "failed", !.prev = established.op]
  /\ FailureFrame /\ UNCHANGED authResult

\* contexts/AuthContext.jsx lines 41-46: login() when api.post rejects
LoginFailedSpa(data) ==
  /\ app = "spa" /\ authUp /\ location = "/login"
  /\ authResult' = [success |-> FALSE,
                    error |-> ErrorMessageSpa(data, "Login failed")]
  /\ established' = [established EXCEPT !.op = "failed", !.prev = established.op]
  /\ FailureFrame /\ UNCHANGED formError

\* contexts/AuthContext.jsx lines 67-72 and RegisterPage.jsx lines 32-40:
\* register() when api.post rejects, and the form showing result.error
RegisterFailedSpa(data) ==
  /\ app = "spa" /\ authUp /\ location = "/register"
  /\ authResult' = [success |-> FALSE,
                    error |-> ErrorMessageSpa(data, "Registration failed")]
  /\ formError' = authResult'.error
  /\ established' = [established EXCEPT !.op = "failed", !.prev = established.op]
  /\ FailureFrame

\* the view the router shows
View ==
  IF app = "clean" THEN RenderClean(location, accessToken, user).view
  ELSE RenderSpa(location, user, loading).view

\* ------------------------------------------ session store specification
\* response bodies of POST /auth/login and /auth/register: any of the fields
\* may be missing
Payloads ==
  {JsObj([k \in {"access_token", "user", "refresh_token"} |->
            IF k = "access_token" THEN c
            ELSE IF k = "user" THEN i ELSE JsStr("r1")]) :
     c \in {Undefined, JsStr("t1"), JsStr("t2")},
     i \in {Undefined, PublicUser, OfficerUser, OtherRoleUser}}

\* the second argument of login(...): part_007 line 27 passes the typed vehicle
\* number or undefined, part_008 line 52 the typed text, "" included
LoginOpts ==
  {JsObj([vehicleNumber |-> v]) :
     v \in {Undefined, JsStr(""), JsStr("KA01AB1234")}}

EmptyStorage == [k \in Keys |-> NoItem]

\* what localStorage may hold under "tv_auth" when frontend-clean starts
StoredSamples ==
  {NoItem, PlainText(""), PlainText("{\"accessToken\":\"t1"), JsonText(Null),
   JsonText(JsStr("t1")),
   JsonText(JsObj([accessToken |-> JsStr("t1")])),
   JsonText(JsObj([user |-> PublicUser])),
   JsonText(JsObj([accessToken |-> JsStr("t1"), user |-> PublicUser])),
   JsonText(JsObj([accessToken |-> JsStr("t1"), user |-> OfficerUser,
                   vehicleNumber |-> JsStr("KA01AB1234")]))}

\* what localStorage may hold when frontend-spa starts
SpaStoredSamples ==
  {[EmptyStorage EXCEPT !["access_token"] = t, !["user"] = u] :
     t \in {NoItem, PlainText("t1")},
     u \in {NoItem, PlainText("{\"id\":"), JsonText(Null),
            JsonText(PublicUser)}}

\* the dashboard before it mounts
DashIdle ==
  /\ mounted = FALSE
  /\ challans = <<>>
  /\ violations = <<>>
  /\ error = ""
  /\ hasSynced = FALSE
  /\ net = EmptyBag
  /\ srvChallans = {}
  /\ srvPaid = {}
  /\ pays = 0
  /\ unmounts = 0
  /\ changes = 0
  /\ requested = {}
  /\ passDone = FALSE
  /\ seen = NoneSeen

\* a process that has not rendered yet, over any localStorage
InitAuth ==
  /\ DashIdle
  /\ app \in {"clean", "spa"}
  /\ authUp = FALSE
  /\ accessToken = Null
  /\ user = Null
  /\ vehicleNumber = JsStr("")
  /\ loading = TRUE
  /\ apiToken = Null
  /\ location \in (IF app = "clean" THEN CleanPaths ELSE SpaPaths)
  /\ lastReq = NoRequest
  /\ formError = JsStr("")
  /\ authResult = Null
  /\ established = [op |-> "none", prev |-> "none", c |-> Null, i |-> Null,
                    v |-> Undefined]
  /\ storage \in IF app = "clean"
                 THEN {[EmptyStorage EXCEPT !["tv_auth"] = x] :
                         x \in StoredSamples}
                 ELSE SpaStoredSamples

NextAuth ==
  \/ PageLoad
  \/ \E payload \in Payloads, opts \in LoginOpts : Login(payload, opts)
  \/ Logout
  \/ PageLoadSpa
  \/ \E data \in Payloads : LoginSpa(data)
  \/ \E data \in Payloads : RegisterSpa(data)
  \/ LogoutSpa
  \/ \E path \in CleanPaths \cup SpaPaths : Goto(path)
  \/ Request
  \/ \E data \in FailureBodies : LoginFailed(data)
  \/ \E stage \in {"key", "register"}, data \in FailureBodies :
       RegisterFailed(stage, data)
  \/ \E data \in FailureBodies : LoginFailedSpa(data)
  \/ \E data \in FailureBodies : RegisterFailedSpa(data)

SpecAuth == InitAuth /\ [][NextAuth]_vars

\* ---------------------------------------------- dashboard specification
\* the dashboard of a vehicle owner logged in to frontend-clean; the session's
\* vehicle (part_005 line 29: "" when none was declared) and the challans the
\* backend already holds are the inputs
InitDash ==
  /\ app = "clean"
  /\ authUp = TRUE
  /\ accessToken = JsStr("t1")
  /\ user = PublicUser
  /\ vehicleNumber \in {JsStr(""), JsStr("KA01AB1234")}
  /\ loading = TRUE
  /\ storage = PersistEffect(accessToken, user, vehicleNumber, EmptyStorage)
  /\ apiToken = SetTokenEffect(accessToken)
  /\ location = "/dashboard"
  /\ lastReq = NoRequest
  /\ formError = JsStr("")
  /\ authResult = Null
  /\ established = [op |-> "none", prev |-> "none", c |-> Null, i |-> Null,
                    v |-> Undefined]
  /\ mounted = FALSE
  /\ challans = <<>>
  /\ violations = <<>>
  /\ error = ""
  /\ hasSynced = FALSE
  /\ net = EmptyBag
  /\ srvChallans \in SUBSET (1..NumViolations)
  /\ srvPaid = {}
  /\ pays = 0
  /\ unmounts = 0
  /\ changes = 0
  /\ requested = {}
  /\ passDone = FALSE
  /\ seen = NoneSeen

NextDash ==
  \/ Mount
  \/ \E m \in BagToSet(net) : Serve(m)
  \/ \E m \in BagToSet(net) : Deliver(m)
  \/ \E i \in DOMAIN challans : Pay(i)

Spec == InitDash /\ [][NextDash]_vars

\* The same dashboard when the backend accepts every list fetch and every
\* creation request (a payment may still fail).
NextOk ==
  \/ Mount
  \/ \E m \in BagToSet(net) : ServeChallans(m, TRUE)
  \/ \E m \in BagToSet(net) : ServeCreate(m, TRUE)
  \/ \E m \in BagToSet(net) : DeliverChallans(m)
  \/ \E m \in BagToSet(net) : DeliverViolations(m)
  \/ \E m \in BagToSet(net) : DeliverCreatedNext(m)
  \/ \E m \in BagToSet(net) : DeliverCreatedLast(m)
  \/ \E m \in BagToSet(net) : DeliverPaid(m)
  \/ \E m \in BagToSet(net) : DeliverPayError(m)
  \/ \E i \in DOMAIN challans : Pay(i)

\* the page mounts, the backend answers and the answers arrive; the user need
\* not press anything
FairOkSpec ==
  /\ InitDash /\ [][NextOk]_vars
  /\ WF_vars(Mount)
  /\ WF_vars(\E m \in BagToSet(net) : ServeChallans(m, TRUE))
  /\ WF_vars(\E m \in BagToSet(net) : ServeCreate(m, TRUE))
  /\ WF_vars(\E m \in BagToSet(net) : DeliverChallans(m))
  /\ WF_vars(\E m \in BagToSet(net) : DeliverViolations(m))
  /\ WF_vars(\E m \in BagToSet(net) : DeliverCreatedNext(m))
  /\ WF_vars(\E m \in BagToSet(net) : DeliverCreatedLast(m))
  /\ WF_vars(\E m \in BagToSet(net) : DeliverPaid(m) \/ DeliverPayError(m))

\* ------------------------------------------------- dashboard life cycle
\* The session's vehicle changes under the mounted dashboard (useAuth, line
\* 20, hands the component another vehicleNumber): a login submitted on the
\* unguarded /login page (part_007 lines 20-36) is answered after the user
\* went back to /dashboard, and its login() call (part_005 lines 48-54) sets
\* the vehicle given in the form. The AuthProvider persists
\* the session; in the dashboard the mount effect runs again (its dependency
\* changed, lines 70-78): both lists are fetched for the new vehicle and the
\* flag is cleared; then the sync effect runs (lines 80-85) on the lists of
\* this render, which are the ones loaded so far. With no vehicle
\* loadViolations empties the list at once (lines 40-43).
ChangeVehicle(v) ==
  /\ mounted
  /\ changes < MaxChanges
  /\ v # vehicleNumber
  /\ vehicleNumber' = v
  /\ changes' = changes + 1
  /\ storage' = PersistEffect(accessToken, user, v, storage)
  /\ hasSynced' = FALSE
  /\ violations' = IF Truthy(v) THEN violations ELSE <<>>
  /\ seen' = NoneSeen
  /\ SyncEffectIn(v, FALSE, violations', challans,
                  loadViolations(v, Send(net, Plain("listChallans", "mount",
                                                    NoId))))
  /\ UNCHANGED <<app, authUp, accessToken, user, loading, apiToken, location,
                 formError, authResult, lastReq, established, mounted,
                 unmounts, challans, error, srvChallans, srvPaid, pays, passDone>>

\* an officer deletes the challan of violation n at the backend
OfficerDeletes(n) ==
  /\ n \in srvChallans
  /\ srvChallans' = srvChallans \ {n}
  /\ srvPaid' = srvPaid \ {n}
  /\ UNCHANGED <<authVars, vehicleNumber, mounted, unmounts, changes, seen,
                 challans, violations, error, hasSynced, net, pays, requested,
                 passDone>>

Vehicles == {JsStr(""), FirstVehicle, SecondVehicle}

\* the dashboard while the router may take it off the page and put it back
NextUnmount ==
  \/ NextDash
  \/ Unmount

SpecUnmount == InitDash /\ [][NextUnmount]_vars

\* the dashboard while the session's vehicle may change under it; the user
\* pays nothing, and of the backend's answers only GET /violations may fail
NextVehicle ==
  \/ Mount
  \/ \E m \in BagToSet(net) : ServeChallans(m, TRUE)
  \/ \E m \in BagToSet(net) : ServeCreate(m, TRUE)
  \/ \E m \in BagToSet(net) : DeliverChallans(m)
  \/ \E m \in BagToSet(net) : DeliverViolations(m)
  \/ \E m \in BagToSet(net) : DeliverViolationsError(m)
  \/ \E m \in BagToSet(net) : DeliverCreatedNext(m)
  \/ \E m \in BagToSet(net) : DeliverCreatedLast(m)
  \/ \E v \in Vehicles : ChangeVehicle(v)

\* the owner declared the first vehicle at login
InitVehicle == InitDash /\ vehicleNumber = FirstVehicle

SpecVehicle == InitVehicle /\ [][NextVehicle]_vars

\* the dashboard while an officer may delete challans
NextDelete ==
  \/ NextDash
  \/ \E n \in srvChallans : OfficerDeletes(n)

SpecDelete == InitDash /\ [][NextDelete]_vars


\* ------------------------------------------------------- the whole client
\* frontend-clean as one program: the session of the AuthProvider, the
\* router and the dashboard it mounts. The owner of InitDash may log out
\* (part_006 lines 11-14) and somebody may log in again on /login, as an owner
\* or as an officer.
AppPayloads ==
  {p \in Payloads : /\ Get(p, "access_token") = JsStr("t2")
                    /\ Get(p, "user") \in {PublicUser, OfficerUser}}

\* whoever logs in declares the first vehicle
AppOpts == {o \in LoginOpts : Get(o, "vehicleNumber") = FirstVehicle}

\* React has run the effects of the last commit: the vehicle owner's
\* dashboard is mounted exactly when the router shows it (App.jsx lines 13-27)
Settled == mounted <=> (View = "UserDashboard")

\* the handlers and answers run between commits; of the backend's answers none
\* fails here and the user pays nothing
NextApp ==
  \/ View = "UserDashboard" /\ Mount
  \/ View # "UserDashboard" /\ Unmount
  \/ Settled /\ Logout
  \/ Settled /\ \E payload \in AppPayloads, opts \in AppOpts :
                   Login(payload, opts)
  \/ Settled /\ \E m \in BagToSet(net) : ServeChallans(m, TRUE)
  \/ Settled /\ \E m \in BagToSet(net) : ServeCreate(m, TRUE)
  \/ Settled /\ \E m \in BagToSet(net) : DeliverChallans(m)
  \/ Settled /\ \E m \in BagToSet(net) : DeliverViolations(m)
  \/ Settled /\ \E m \in BagToSet(net) : DeliverCreatedNext(m)
  \/ Settled /\ \E m \in BagToSet(net) : DeliverCreatedLast(m)

\* the owner declared the first vehicle and the backend holds no challan yet
InitApp == InitDash /\ vehicleNumber = FirstVehicle /\ srvChallans = {}

SpecApp == InitApp /\ [][NextApp]_vars

\* One session from the login form on: nobody is logged in, the form of
\* /login is submitted by an owner, an officer or a user of another role, with
\* any of the vehicle inputs, and the router shows that role its dashboard.
InitRole ==
  /\ DashIdle
  /\ app = "clean"
  /\ authUp = TRUE
  /\ accessToken = Null
  /\ user = Null
  /\ vehicleNumber = JsStr("")
  /\ loading = TRUE
  /\ storage = PersistEffect(Null, Null, JsStr(""), EmptyStorage)
  /\ apiToken = SetTokenEffect(Null)
  /\ location = "/login"
  /\ lastReq = NoRequest
  /\ formError = JsStr("")
  /\ authResult = Null
  /\ established = [op |-> "none", prev |-> "none", c |-> Null, i |-> Null,
                    v |-> Undefined]

RolePayloads ==
  {p \in Payloads : /\ Get(p, "access_token") = JsStr("t1")
                    /\ Get(p, "user") # Undefined}

NextRole ==
  \/ View = "UserDashboard" /\ Mount
  \/ Settled /\ \E payload \in RolePayloads, opts \in LoginOpts :
                   Login(payload, opts)
  \/ Settled /\ \E m \in BagToSet(net) : Serve(m)
  \/ Settled /\ \E m \in BagToSet(net) : Deliver(m)
  \/ Settled /\ \E i \in DOMAIN challans : Pay(i)

SpecRole == InitRole /\ [][NextRole]_vars


\* ------------------------------------------- observations of the dashboard
\* the creation requests in the bag b
Creates(b) == {m \in BagToSet(b) : m.op = "create"}

\* how many creation requests are in flight (answered or not)
CreatesInFlight == BagCardinality([m \in Creates(net) |-> net[m]])

\* the creation requests a step issues
NewCreates ==
  {n \in Creates(net') : n.resp = "pending" /\ CopiesIn(n, net') > CopiesIn(n, net)}

\* the step hands the answer m to the function that awaits it
Delivered(m) == m.resp # "pending" /\ CopiesIn(m, net') < CopiesIn(m, net)

\* the step issues the creation request that follows m in m's pass
Continued(m) ==
  \E n \in NewCreates : n.V = m.V /\ n.C = m.C /\ n.tc = m.tc /\ n.i = m.i + 1

\* the step ends the for loop of the pass that awaited the creation request m
LoopEnds(m) == m.op = "create" /\ Delivered(m) /\ ~Continued(m)

\* the ids the pass of m has issued creation requests for, in order
IssuedIds(m) == [k \in 1..m.i |-> m.tc[k].id]

\* section 4.3 steps 1-2 of the specification: the violations of V no challan
\* of C covers, as the sequence of their ids
Missing(V, C) ==
  LET cov == {C[j].violation_id.n : j \in DOMAIN C}
      sel == SelectSeq(V, LAMBDA v : v.id.n \notin cov)
  IN [k \in DOMAIN sel |-> sel[k].id]

\* every violation of the vehicle has a challan in the list shown
Covered == \A n \in 1..NumViolations : n \in existingViolationIds(challans)

\* ------------------------------------------------------------------ claims
\* C1: in one mount no creation request is issued for a violation that was
\* already requested, nor for one that has a challan on the backend when the
\* request is issued.
C1_NoDuplicateCreation ==
  [][\A n \in NewCreates : /\ StringOf(n.v) \notin requested
                           /\ StringOf(n.v) \notin srvChallans]_vars

\* C2: at most one creation request is in flight at any time.
C2_OneCreationInFlight == CreatesInFlight <= 1

\* C3: when the loop of a pass over (V, C) ends, the pass has issued creation
\* requests exactly for the violations of V that no challan of C covers, one
\* each, in the order of V.
C3_PassIssuesExactlyMissing ==
  [][\A m \in BagToSet(net) : LoopEnds(m) => IssuedIds(m) = Missing(m.V, m.C)]_vars

\* C4: when the re-fetch of a pass whose creations all succeeded is applied, a
\* pass over the list it brought has nothing to create; and once such a pass
\* has run its loop to the end, no step (a later refresh of the challans
\* included) starts a pass.
C4_Idempotent ==
  [][/\ \A m \in BagToSet(net) :
          (m.op = "listChallans" /\ m.cont = "sync" /\ m.resp = "ok"
             /\ Delivered(m))
          => Missing(m.V, challans') = <<>>
     /\ passDone => ~(\E n \in NewCreates : n.i = 1)]_vars

C4_Witness ==
  /\ passDone
  /\ Missing(violations, challans) = <<>>
  /\ requested # {}
  /\ \E m \in BagToSet(net) :
        m.op = "listChallans" /\ m.cont = "pay" /\ m.resp = "ok"

\* C5: with a vehicle declared and every fetch and creation accepted, the list
\* shown after the mount eventually holds a challan for every violation of the
\* vehicle.
C5_EventuallyCovered == Truthy(vehicleNumber) => <>(mounted /\ Covered)

C5_Witness ==
  /\ mounted /\ Truthy(vehicleNumber)
  /\ requested # {}
  /\ Covered

\* C6: when a creation request of a pass fails and the pass has violations
\* left, the pass issues the creation request of the next one.
C6_FailureDoesNotAbort ==
  [][\A m \in BagToSet(net) :
        (m.op = "create" /\ m.resp = "err" /\ Delivered(m) /\ m.i < Len(m.tc))
        => Continued(m)]_vars

\* C7: when the loop of a pass ends, whether or not a creation failed, the
\* has-synced flag is true, and while it is true no pass starts.
C7_FlagSetAfterAnyPass ==
  [][/\ \A m \in BagToSet(net) : LoopEnds(m) => hasSynced'
     /\ hasSynced => ~(\E n \in NewCreates : n.i = 1)]_vars

\* ------------------------------------------------- session store claims
\* the stored record of frontend-clean holds a credential / an identity
StoredCredential == Truthy(Get(readStoredAuth(storage), "accessToken"))
StoredIdentity == Truthy(Get(readStoredAuth(storage), "user"))

\* C8: once the provider has mounted, credential and identity are both present
\* or both absent, in the session and in the persisted record, in either
\* application.
C8_CredentialWithIdentity ==
  authUp =>
    IF app = "clean"
    THEN /\ Truthy(accessToken) <=> Truthy(user)
         /\ StoredCredential <=> StoredIdentity
    ELSE /\ Truthy(apiToken) <=> Truthy(user)
         /\ (storage["access_token"].t = "text") <=> (storage["user"].t = "text")

\* C9: a page load that follows login(payload, opts) with a credential c, an
\* identity i and a vehicle v (none when opts names none) restores exactly
\* c, i and v.
C9_RoundTrip ==
  [][(PageLoad /\ established.op = "login"
        /\ Truthy(established.c) /\ Truthy(established.i))
     => /\ accessToken' = established.c
        /\ user' = established.i
        /\ vehicleNumber' = Or(established.v, JsStr(""))]_vars

\* the session is absent
SessionAbsent ==
  IF app = "clean"
  THEN ~Truthy(accessToken) /\ ~Truthy(user) /\ vehicleNumber = JsStr("")
  ELSE ~Truthy(user) /\ ~Truthy(apiToken)

\* localStorage holds nothing of a session
RecordGone ==
  IF app = "clean" THEN storage["tv_auth"] = NoItem
  ELSE \A k \in {"access_token", "refresh_token", "user"} : storage[k] = NoItem

\* the persisted record is not a session: it does not parse or lacks the
\* credential or the identity (no record at all included)
NoStoredSession ==
  IF app = "clean" THEN ~StoredValid(readStoredAuth(storage))
  ELSE \/ ~ItemTruthy(storage["access_token"])
       \/ ~ItemTruthy(storage["user"])
       \/ ParseThrows(storage["user"])
       \/ ~Truthy(Parse(storage["user"]))

\* C10: a page load over a record that is no session leaves the session absent
\* and no record behind (so does the page load after it).
C10_MalformedRestore ==
  [][((PageLoad \/ PageLoadSpa) /\ NoStoredSession)
     => (SessionAbsent' /\ RecordGone')]_vars

\* C11: logout leaves credential, identity and vehicle absent and no record
\* in localStorage, and the page load that follows a logout restores an
\* absent session.
C11_LogoutClears ==
  [][/\ (Logout \/ LogoutSpa) => (SessionAbsent' /\ RecordGone')
     /\ ((PageLoad \/ PageLoadSpa) /\ established.op = "logout")
          => (SessionAbsent' /\ RecordGone')]_vars

\* a page load right after the logout of a session that a login had set up
C11_Witness ==
  /\ established.op = "restore" /\ established.prev = "logout"
  /\ Truthy(established.c) /\ Truthy(established.i)
  /\ SessionAbsent /\ RecordGone

\* the record localStorage holds for frontend-clean, as restore reads it
StoredRecord == readStoredAuth(storage)

\* C12: after login(payload, opts) the session holds the credential and the
\* identity of payload and the vehicle of opts (none when opts names none), and
\* the persisted record holds the same three values.
C12_EstablishSetsAll ==
  [][(\E payload \in Payloads, opts \in LoginOpts : Login(payload, opts))
     => /\ accessToken' = established'.c
        /\ user' = established'.i
        /\ vehicleNumber' = Or(established'.v, JsStr(""))
        /\ (Truthy(established'.c) /\ Truthy(established'.i))
             => /\ Get(StoredRecord', "accessToken") = established'.c
                /\ Get(StoredRecord', "user") = established'.i
                /\ Get(StoredRecord', "vehicleNumber")
                     = Or(established'.v, JsStr(""))]_vars

\* -------------------------------------------------- route guard claims
\* the roles the backend knows
RoleNames == {JsStr("public"), JsStr("officer")}

\* what the application's guard renders for allowedRoles in the current session
Decide(allowedRoles) ==
  IF app = "clean" THEN ProtectedRoute(accessToken, user, allowedRoles)
  ELSE ProtectedRouteSpa(user, loading, allowedRoles)

\* C13: for every non-empty allowed-role set the guard redirects to login when
\* no identity is present, allows an identity whose role is in the set and
\* redirects home an identity whose role is not.
C13_GuardTable ==
  authUp =>
    \A S \in (SUBSET RoleNames) \ {{}} :
      Decide(JsArr(S)) = IF ~Truthy(user) THEN RedirectLogin
                         ELSE IF Get(user, "role") \in S THEN Allow
                         ELSE RedirectHome

\* C14: with an identity present the guard allows when allowedRoles is not
\* given and when it is the empty set.
C14_NoRolesAllows ==
  (authUp /\ Truthy(user)) =>
    /\ Decide(Undefined) = Allow
    /\ Decide(JsArr({})) = Allow

\* C16: a dashboard is shown only while an identity is present, the officer
\* dashboard only to role officer and the user dashboard of frontend-spa
\* only to role public.
C16_DashboardNeedsIdentity ==
  /\ View \in {"UserDashboard", "OfficialDashboard", "OfficerDashboard"}
       => Truthy(user)
  /\ View \in {"OfficialDashboard", "OfficerDashboard"}
       => Get(user, "role") = JsStr("officer")
  /\ (app = "spa" /\ View = "UserDashboard") => Get(user, "role") = JsStr("public")

\* an officer has logged in and is shown the officer dashboard
C16_Witness ==
  /\ established.op = "login"
  /\ View = "OfficialDashboard"
  /\ Get(user, "role") = JsStr("officer")

SessionVars == <<accessToken, user, vehicleNumber, storage, apiToken>>

\* C17: a failed login, registration or key validation leaves the session and
\* the persisted record as they were and sets a visible error (frontend-spa
\* login returns it to the form); the session changes only in steps that are
\* not failures.
C17_FailureLeavesSession ==
  [][(\/ \E data \in FailureBodies : LoginFailed(data) \/ LoginFailedSpa(data)
      \/ \E data \in FailureBodies : RegisterFailedSpa(data)
      \/ \E stage \in {"key", "register"}, data \in FailureBodies :
           RegisterFailed(stage, data))
     =>
       /\ UNCHANGED SessionVars
       /\ IF app = "spa" /\ location = "/login"
          THEN ~authResult'.success /\ Truthy(authResult'.error)
          ELSE Truthy(formError')]_vars

\* a registration failed without any response while a session was present
C17_Witness ==
  /\ established.op = "failed" /\ established.prev = "restore"
  /\ location = "/register"
  /\ formError = JsStr("Registration failed")
  /\ Truthy(user)

\* ---------------------------------------------- more dashboard claims
\* the requests a step issues
NewRequests ==
  {n \in BagToSet(net') :
     n.resp = "pending" /\ CopiesIn(n, net') > CopiesIn(n, net)}

\* C18: when the sync effect runs on lists in which no violation is missing,
\* the step issues no request and leaves the has-synced flag as it was.
C18_EmptyDiffNoRequest ==
  [][(/\ \E m \in BagToSet(net) : DeliverChallans(m) \/ DeliverViolations(m)
      /\ EffectRuns(vehicleNumber, hasSynced, violations')
      /\ Missing(violations', challans') = <<>>)
     => (NewRequests = {} /\ hasSynced' = hasSynced)]_vars

\* both lists are loaded, every violation was covered from the start, and the
\* pass has asked for nothing and set no flag
C18_Witness ==
  /\ mounted /\ Truthy(vehicleNumber)
  /\ violations # <<>> /\ challans # <<>>
  /\ Missing(violations, challans) = <<>>
  /\ ~hasSynced /\ requested = {} /\ net = EmptyBag

\* C19: the step that ends the loop of a pass issues exactly one re-fetch of
\* the challans, whether the last answer was a success or a failure.
C19_ReloadOnceAfterPass ==
  [][\A m \in BagToSet(net) :
       LoopEnds(m) =>
         \E n \in NewRequests :
           /\ n.op = "listChallans" /\ n.cont = "sync"
           /\ CopiesIn(n, net') = CopiesIn(n, net) + 1
           /\ {x \in NewRequests : x.op = "listChallans"} = {n}]_vars

\* C20: without a vehicle no request for the violations and no creation
\* request is ever issued.
C20_NoVehicleNoOp ==
  ~Truthy(vehicleNumber) =>
    /\ \A m \in BagToSet(net) : m.op \notin {"listViolations", "create"}
    /\ requested = {}
    /\ violations = <<>>

\* no vehicle, challans are shown and were re-fetched after a payment
C20_Witness ==
  /\ ~Truthy(vehicleNumber) /\ mounted
  /\ challans # <<>> /\ pays > 0 /\ net = EmptyBag

\* ------------------------------------------------------ startup claims
\* C29: a page load over a persisted record that holds a credential and an
\* identity does not end on the login page unless it was loaded there.
C29_NoRedirectBeforeRestore ==
  [][(/\ \/ PageLoad /\ StoredValid(readStoredAuth(storage))
         \/ PageLoadSpa /\ ~NoStoredSession
      /\ location # "/login")
     => location' # "/login"]_vars

\* C30: for an authenticated session of frontend-clean, whatever its role
\* string, the router at /dashboard shows a dashboard.
C30_DashboardReached ==
  (app = "clean" /\ authUp /\ isAuthenticated(accessToken, user)
     /\ location = "/dashboard")
  => View \in Dashboards

\* ------------------------------------------------------------------ C27
\* the step starts a reconciliation pass: it issues the first creation
\* request of a loop
PassStarts == \E n \in NewCreates : n.i = 1

\* C27: a reconciliation pass starts only after the challan-list fetch of the
\* current mount has succeeded; while that fetch has failed or has not been
\* answered, no creation request is issued for any violation.
C27_PassAfterChallansLoaded ==
  [][PassStarts => seen'.loaded]_vars

\* ------------------------------------------------------------------ C21
\* the ids of the violations the backend lists for the vehicle vn
ViolationIdsOf(vn) ==
  {ViolationsOf(vn)[k].id : k \in DOMAIN ViolationsOf(vn)}

\* C21: once the declared vehicle has changed under the mounted dashboard,
\* every creation request issued carries the id of a violation of the new
\* vehicle, never one of the previous vehicle's still-loaded list.
C21_CreatesForNewVehicle ==
  [][changes' > 0 =>
       \A n \in NewCreates : n.v \in ViolationIdsOf(vehicleNumber')]_vars

\* ------------------------------------------------------------------ C25
\* C25: a failed violation-list fetch sets no error banner, leaves the
\* violation list of the view and of the engine empty (not a list left over
\* from an earlier fetch), and issues no creation request.
C25_ViolationFailureMeansNoData ==
  [][(\E m \in BagToSet(net) : DeliverViolationsError(m))
       => /\ error' = error
          /\ violations' = <<>>
          /\ NewCreates = {}]_vars

\* ------------------------------------------------------------------ C22
\* C22: once a violation has had a challan in a list this mount loaded, no
\* pass is started that asks for a challan of that violation, even if an
\* officer deleted the challan and the list was fetched again since.
C22_NoRecreation ==
  [][\A n \in NewCreates : n.i = 1 => n.v.n \notin seen.covered]_vars

\* ------------------------------------------------------------------ C23
\* the step hands an answer to a function of an instance that is no longer
\* on the page
StaleAnswer ==
  \E m \in BagToSet(net) : Delivered(m) /\ ~Live(m)

\* the requests in flight, answered or not
InFlight(b) == BagCardinality(b)

\* C23: an answer that arrives after the dashboard that asked was unmounted
\* is ignored: it changes no view state and no follow-up request is issued.
C23_StaleAnswerIgnored ==
  [][StaleAnswer =>
       /\ UNCHANGED <<challans, violations, error, hasSynced>>
       /\ InFlight(net') < InFlight(net)]_vars

\* ------------------------------------------------------------------ C26
\* a payment of the shown challan c was requested from this page and has not
\* resolved
PayInFlight(c) ==
  \E m \in BagToSet(net) : m.op = "pay" /\ m.v = c.violation_id /\ Live(m)

\* C26: while the payment request of a challan is in flight its Pay control
\* is disabled, so that no second payment of it can be requested before the
\* first resolves.
C26_PayDisabledInFlight ==
  \A i \in DOMAIN challans :
    PayInFlight(challans[i]) => PayDisabled(challans[i])

\* ------------------------------------------------------------------ C28
\* C28: every creation request of a pass carries the credential of the
\* session under which the pass started, also after a logout or a logout
\* followed by a login as another identity.
C28_CreateCarriesStartCredential ==
  [][\A n \in NewCreates : n.hdr = Bearer(n.start)]_vars

\* ------------------------------------------------------------------ C24
\* C24: while the session's role is officer no reconciliation pass is
\* started, even when the session carries a vehicle identifier.
C24_NoPassForOfficer ==
  [][PassStarts => role(user) # JsStr("officer")]_vars

\* an officer who declared a vehicle is shown the dashboard of officers
C24_Witness ==
  /\ role(user) = JsStr("officer")
  /\ Truthy(vehicleNumber)
  /\ location = "/dashboard"
  /\ View = "OfficialDashboard"
  /\ Settled


============================================================================
